---- MODULE Spec2Model ----
(***************************************************************************)
(* A model of cs_scanimage.py: the pipeline of main (parse_args,           *)
(* detect_container_runtime, container_tag, container_login,               *)
(* container_push, get_scanreport, plugin print, export, the four          *)
(* get_alerts_* classifiers and the exit status resolution).               *)
(*                                                                         *)
(* Strings that the code lower-cases are sequences of one-character        *)
(* strings, so that str.lower() is computed character by character.        *)
(* JSON values are records [k, s]: k is the kind ("absent" for a key that  *)
(* is not in the dict, "null" for None, "num" for a non-string scalar,     *)
(* "str" for a string whose characters are s).                             *)
(***************************************************************************)
EXTENDS Integers, Sequences, FiniteSets, TLC

VARIABLES pc, args, report, trace, push_attempts, push_consumed,
          push_rest, push_err,
          count, fetchlog, slept, printed, exported,
          f_vuln_score, f_secrets, f_malware, alerts, err, exit_code

vars == <<pc, args, report, trace, push_attempts, push_consumed,
          push_rest, push_err,
          count, fetchlog, slept, printed, exported,
          f_vuln_score, f_secrets, f_malware, alerts, err, exit_code>>

(***************************************************************************)
(* Bounds of the model.                                                    *)
(***************************************************************************)
MaxVulns == 2
MaxDets == 2
MaxMainVulns == 1
MaxMainDets == 2
MaxRetry == 1
MaxFetchRetry == 3
MaxLines == 2

(***************************************************************************)
(* Program constants.                                                      *)
(***************************************************************************)
Vulnerability == 1
Malware == 2
Secrets == 3
Success == 0
ScriptFailure == 10
ArgparseError == 2
critical_score == 2000
high_score == 500
medium_score == 100
low_score == 20
sleep_seconds == 10
PushMaxAttempts == 5
StatusOK == 200

(***************************************************************************)
(* JSON values and Python's str.lower().                                   *)
(***************************************************************************)
Absent == [k |-> "absent", s |-> <<>>]
Null == [k |-> "null", s |-> <<>>]
Num == [k |-> "num", s |-> <<>>]
Str(chars) == [k |-> "str", s |-> chars]

UpperAlpha == <<"A","B","C","D","E","F","G","H","I","J","K","L","M",
                "N","O","P","Q","R","S","T","U","V","W","X","Y","Z">>
LowerAlpha == <<"a","b","c","d","e","f","g","h","i","j","k","l","m",
                "n","o","p","q","r","s","t","u","v","w","x","y","z">>

LowerChar(c) ==
    IF \E i \in DOMAIN UpperAlpha : UpperAlpha[i] = c
    THEN LowerAlpha[CHOOSE i \in DOMAIN UpperAlpha : UpperAlpha[i] = c]
    ELSE c

Lower(chars) == [i \in DOMAIN chars |-> LowerChar(chars[i])]

\* dict.get(key): None when the key is absent
Get(field) == IF field.k = "absent" THEN Null ELSE field

\* dict.get(key, default)
GetDefault(field, default) == IF field.k = "absent" THEN default ELSE field

\* the string literals the code compares against
s_low == <<"l","o","w">>
s_medium == <<"m","e","d","i","u","m">>
s_high == <<"h","i","g","h">>
s_critical == <<"c","r","i","t","i","c","a","l">>
type_malware == <<"m","a","l","w","a","r","e">>
type_secret == <<"s","e","c","r","e","t">>
type_misconfig == <<"m","i","s","c","o","n","f","i","g","u","r","a","t","i","o","n">>
type_cis == <<"c","i","s">>

(***************************************************************************)
(* Results of a call: err is "none" or the name of the exception raised,   *)
(* val the returned value, alert whether the "Alert: ..." line was logged. *)
(***************************************************************************)
Ok(v, a) == [err |-> "none", val |-> v, alert |-> a]
Raise(e) == [err |-> e, val |-> 0, alert |-> FALSE]

(***************************************************************************)
(* ScanReport.get_alerts_vuln.  A finding is a record                      *)
(*   vkey     whether the entry has the "Vulnerability" key                *)
(*   details  "absent", "other" (not a dict: null, a string...) or "dict"  *)
(*   severity the value of Details["severity"]                             *)
(*   cvss_v3, cvss_v2  [k |-> "absent" | "null" | "dict", severity |-> v]  *)
(*   product  "absent", "null" or "dict"                                   *)
(***************************************************************************)
NoCvss == [k |-> "absent", severity |-> Absent]
NullCvss == [k |-> "null", severity |-> Absent]
Cvss(v) == [k |-> "dict", severity |-> v]

\* lines 233-236: severity = details.get("severity"); when None, the
\* cvss_v3_score dict (default {}) is asked; None.get raises AttributeError
SeverityV3(f) ==
    LET severity == Get(f.severity)
    IN  IF severity.k # "null" THEN Ok(severity, FALSE)
        ELSE IF f.cvss_v3.k = "null" THEN Raise("AttributeError")
        ELSE Ok(Get(f.cvss_v3.severity), FALSE)

\* lines 237-239: when still None, cvss_v2_score (default {}) with default ""
SeverityV2(f, severity) ==
    IF severity.k # "null" THEN Ok(severity, FALSE)
    ELSE IF f.cvss_v2.k = "null" THEN Raise("AttributeError")
    ELSE Ok(GetDefault(f.cvss_v2.severity, Str(<<>>)), FALSE)

\* lines 232-241
ResolveSeverity(f) ==
    IF f.details = "dict"
    THEN LET r3 == SeverityV3(f)
         IN  IF r3.err # "none" THEN r3 ELSE SeverityV2(f, r3.val)
    ELSE Ok(Str(<<>>), FALSE)

\* lines 251-258: four independent tests of severity.lower()
Points(chars) ==
      (IF Lower(chars) = s_low THEN low_score ELSE 0)
    + (IF Lower(chars) = s_medium THEN medium_score ELSE 0)
    + (IF Lower(chars) = s_high THEN high_score ELSE 0)
    + (IF Lower(chars) = s_critical THEN critical_score ELSE 0)

\* lines 228-258: one iteration of the loop; the result is the new vuln_score
FindingStep(f, vuln_score) ==
    IF ~f.vkey THEN Raise("KeyError")
    ELSE LET r == ResolveSeverity(f)
         IN  IF r.err # "none" THEN r
             ELSE IF f.product = "null" THEN Raise("AttributeError")
             ELSE IF r.val.k # "str" THEN Raise("AttributeError")
             ELSE Ok(vuln_score + Points(r.val.s), FALSE)

RECURSIVE VulnLoop(_, _, _)
VulnLoop(vulnerabilities, i, vuln_score) ==
    IF i > Len(vulnerabilities) THEN Ok(vuln_score, FALSE)
    ELSE LET r == FindingStep(vulnerabilities[i], vuln_score)
         IN  IF r.err # "none" THEN r
             ELSE VulnLoop(vulnerabilities, i + 1, r.val)

\* a list-valued key of the report: [k |-> "absent" | "null" | "list", items]
get_alerts_vuln(rep) ==
    IF rep.vulns.k = "absent" THEN Raise("KeyError")
    ELSE IF rep.vulns.k = "null" THEN Ok(0, FALSE)
    ELSE VulnLoop(rep.vulns.items, 1, 0)

(***************************************************************************)
(* get_alerts_malware, get_alerts_secrets, get_alerts_misconfig.           *)
(* A detection is [dkey, type]: dkey whether the entry has the "Detection" *)
(* key, type the value of its "Type" key.                                  *)
(***************************************************************************)
TypeLookupNoSkip(d) == IF ~d.dkey THEN Raise("KeyError") ELSE Ok(Get(d.type), FALSE)

\* detection["Detection"]["Type"] raises KeyError when either key is missing
TypeLookup(d) ==
    IF ~d.dkey \/ d.type.k = "absent" THEN Raise("KeyError") ELSE Ok(d.type, FALSE)

\* the loops of lines 269-276 / 287-294 / 305-315: alert is TRUE when some
\* entry matched (break); an entry raising KeyError is skipped (continue);
\* .lower() of a value that is no string raises AttributeError, not caught
RECURSIVE DetLoop(_, _, _)
DetLoop(detections, i, wanted) ==
    IF i > Len(detections) THEN Ok(0, FALSE)
    ELSE LET t == TypeLookup(detections[i])
         IN  IF t.err = "KeyError" THEN DetLoop(detections, i + 1, wanted)
             ELSE IF t.val.k # "str" THEN Raise("AttributeError")
             ELSE IF Lower(t.val.s) \in wanted THEN Ok(0, TRUE)
             ELSE DetLoop(detections, i + 1, wanted)

\* self["Detections"] raises KeyError when the key is absent; det_code is
\* the given enum value when an entry matched and 0 otherwise
DetScan(rep, wanted, code) ==
    IF rep.dets.k = "absent" THEN Raise("KeyError")
    ELSE IF rep.dets.k = "null" THEN Ok(0, FALSE)
    ELSE LET r == DetLoop(rep.dets.items, 1, wanted)
         IN  IF r.err # "none" THEN r
             ELSE IF r.alert THEN Ok(code, TRUE)
             ELSE Ok(0, FALSE)

get_alerts_malware(rep) == DetScan(rep, {type_malware}, Malware)

get_alerts_secrets(rep) == DetScan(rep, {type_secret}, Secrets)

get_alerts_misconfig(rep) == DetScan(rep, {type_misconfig, type_cis}, Success)

(***************************************************************************)
(* main: the exit status resolution of lines 565-584.  score is the        *)
(* --score_threshold string: [ok, val], ok when int(score) succeeds.       *)
(***************************************************************************)
ResolveStatusMalwareFirst(secrets, malware, vuln_score, score) ==
    IF malware = Malware THEN Ok(Malware, FALSE)
    ELSE IF secrets = Secrets THEN Ok(Secrets, FALSE)
    ELSE IF ~score.ok THEN Raise("ValueError")
    ELSE IF vuln_score >= score.val THEN Ok(Vulnerability, FALSE)
    ELSE Ok(Success, FALSE)

ResolveStatusStrict(secrets, malware, vuln_score, score) ==
    IF secrets = Secrets THEN Ok(Secrets, FALSE)
    ELSE IF malware = Malware THEN Ok(Malware, FALSE)
    ELSE IF ~score.ok THEN Raise("ValueError")
    ELSE IF vuln_score > score.val THEN Ok(Vulnerability, FALSE)
    ELSE Ok(Success, FALSE)

ResolveStatus(secrets, malware, vuln_score, score) ==
    IF secrets = Secrets THEN Ok(Secrets, FALSE)
    ELSE IF malware = Malware THEN Ok(Malware, FALSE)
    ELSE IF ~score.ok THEN Raise("ValueError")
    ELSE IF vuln_score >= score.val THEN Ok(Vulnerability, FALSE)
    ELSE Ok(Success, FALSE)

ExitOnExceptionNarrow(kind) ==
    IF kind \in {"APIError", "RetryExhaustedError"} THEN ScriptFailure ELSE 1

\* lines 586-594: APIError, RetryExhaustedError and every other Exception
\* are caught and exit with ScriptFailure
ExitOnException(kind) ==
    IF kind = "APIError" THEN ScriptFailure
    ELSE IF kind = "RetryExhaustedError" THEN ScriptFailure
    ELSE ScriptFailure

PluginRequestedNever(a) == FALSE

\* line 554: if plugin
PluginRequested(a) == a.plugin

\* line 558: if json_report
ExportRequested(a) == a.json_report

RangeHasInclusive(c, retry_count) == c <= retry_count

\* line 175: for count in range(retry_count)
RangeHas(c, retry_count) == c < retry_count

\* line 179: resp["status_code"] != 200
NotReady(status_code) == status_code # StatusOK

(***************************************************************************)
(* container_push, lines 139-156: the lines of the stream are consumed in  *)
(* order; a line with an "error" key raises APIError, the other lines are  *)
(* only printed or logged.                                                 *)
(***************************************************************************)
LineRaisesNever(line) == FALSE

\* line 143: if "error" in line
LineRaises(line) == line = "error"

\* line 122: stop_after_delay(5) | stop_after_attempt(5)
StopRetry(attempt_number, delay_elapsed) ==
    delay_elapsed \/ attempt_number >= PushMaxAttempts

(***************************************************************************)
(* The inputs: command lines, push streams, service responses, reports.    *)
(***************************************************************************)
SeqsUpTo(S, n) == UNION {[1..k -> S] : k \in 0..n}

AbsentList == [k |-> "absent", items |-> <<>>]
NullList == [k |-> "null", items |-> <<>>]
List(items) == [k |-> "list", items |-> items]

Finding(sev, v3, v2) ==
    [vkey |-> TRUE, details |-> "dict", severity |-> sev,
     cvss_v3 |-> v3, cvss_v2 |-> v2, product |-> "dict"]

\* entries without the "Vulnerability" key, without Details, with Details
\* that is no dict, with a null Product, and with no Product at all
OddFindings ==
    { [Finding(Str(s_high), NoCvss, NoCvss) EXCEPT !.vkey = FALSE],
      [Finding(Absent, NoCvss, NoCvss) EXCEPT !.details = "absent"],
      [Finding(Absent, NoCvss, NoCvss) EXCEPT !.details = "other"],
      [Finding(Str(s_low), NoCvss, NoCvss) EXCEPT !.product = "null"],
      [Finding(Str(s_medium), NoCvss, NoCvss) EXCEPT !.product = "absent"] }

DirectSeverities ==
    { Absent, Null, Num, Str(<<>>), Str(s_high), Str(<<"H","I","G","H">>),
      Str(s_low), Str(<<"b","o","g","u","s">>) }

V3Values ==
    { NoCvss, NullCvss, Cvss(Absent), Cvss(Str(s_high)),
      Cvss(Str(<<"M","e","d","i","u","m">>)) }

V2Values ==
    { NoCvss, NullCvss, Cvss(Absent), Cvss(Null), Cvss(Str(s_critical)),
      Cvss(Str(s_low)) }

VulnFindings ==
    { Finding(s, a, b) : s \in DirectSeverities, a \in V3Values, b \in V2Values }
    \cup OddFindings

VulnReports ==
    { [vulns |-> v, dets |-> List(<<>>)] :
        v \in {AbsentList, NullList} \cup {List(l) : l \in SeqsUpTo(VulnFindings, MaxVulns)} }

Detection(chars) == [dkey |-> TRUE, type |-> Str(chars)]
NoDetectionKey == [dkey |-> FALSE, type |-> Absent]
NoType == [dkey |-> TRUE, type |-> Absent]
NullType == [dkey |-> TRUE, type |-> Null]

\* detections of the report model: the type is a string or is missing
DetEntries ==
    { NoDetectionKey, NoType,
      Detection(type_malware), Detection(<<"M","a","l","w","a","r","e">>),
      Detection(type_secret), Detection(<<"S","E","C","R","E","T">>),
      Detection(type_misconfig), Detection(type_cis), Detection(<<"C","I","S">>),
      Detection(<<"s","e","c","r","e","t","s">>), Detection(<<>>) }

DetReports ==
    { [vulns |-> List(<<>>), dets |-> d] :
        d \in {NullList} \cup {List(l) : l \in SeqsUpTo(DetEntries, MaxDets)} }

\* the reports the service returns in the runs of main
MainFindings ==
    { Finding(Str(s_low), NoCvss, NoCvss), Finding(Absent, NullCvss, NoCvss) }

MainDetEntries ==
    { NullType, Detection(<<"M","a","l","w","a","r","e">>),
      Detection(<<"S","e","c","r","e","t">>), Detection(type_cis) }

MainReports ==
    { [vulns |-> v, dets |-> d] :
        v \in {AbsentList, NullList} \cup {List(l) : l \in SeqsUpTo(MainFindings, MaxMainVulns)},
        d \in {AbsentList, NullList} \cup {List(l) : l \in SeqsUpTo(MainDetEntries, MaxMainDets)} }

\* the value of report before get_scanreport has returned
NoReport == [vulns |-> AbsentList, dets |-> AbsentList]

\* --score_threshold values: the score of one low finding, one more, and a
\* string int() rejects
Scores ==
    { [ok |-> TRUE, val |-> low_score], [ok |-> TRUE, val |-> low_score + 1],
      [ok |-> FALSE, val |-> 0] }

ValidArgs ==
    [valid : {TRUE}, plugin : BOOLEAN, skip_push : BOOLEAN, json_report : BOOLEAN,
     score : Scores, retry_count : 0..MaxRetry]

\* a command line argparse rejects (a retry count that is no integer, an
\* unknown cloud region or log level)
InvalidArgs ==
    [valid |-> FALSE, plugin |-> FALSE, skip_push |-> FALSE, json_report |-> FALSE,
     score |-> [ok |-> TRUE, val |-> high_score], retry_count |-> 0]

DefaultArgs ==
    [valid |-> TRUE, plugin |-> FALSE, skip_push |-> FALSE, json_report |-> FALSE,
     score |-> [ok |-> TRUE, val |-> high_score], retry_count |-> 0]

Lines == {"status", "Pushing", "other", "error"}
Streams == SeqsUpTo(Lines, MaxLines)

Statuses == {StatusOK, 404}

NoErr == [at |-> "none", kind |-> "none", n |-> 0]
NoExit == 0 - 1

(***************************************************************************)
(* The state machine of main.                                              *)
(*   pc            the step of main that runs next, "done" after sys.exit  *)
(*   args          the parsed command line                                 *)
(*   report        scan_report                                             *)
(*   trace         the pipeline steps entered so far, in order             *)
(*   push_attempts, push_consumed  container_push: attempts made, lines    *)
(*                 of the stream consumed by the last attempt              *)
(*   push_rest     the lines of that stream not read so far                *)
(*   push_err      the exception the last attempt raised, or "none"        *)
(*   count, fetchlog, slept  get_scanreport: the loop counter, the sleeps  *)
(*                 and get_assessment calls made, the seconds slept        *)
(*   printed, exported  the report was printed / written to the path       *)
(*   f_vuln_score, f_secrets, f_malware  the locals of main                *)
(*   alerts        the "Alert: ..." lines logged by the classifiers        *)
(*   err           the exception that reached the handlers of main         *)
(*   exit_code     the argument of sys.exit, NoExit while running          *)
(***************************************************************************)
InitCommon ==
    /\ trace = <<>>
    /\ push_attempts = 0
    /\ push_consumed = 0
    /\ push_rest = <<>>
    /\ push_err = "none"
    /\ count = 0
    /\ fetchlog = <<>>
    /\ slept = 0
    /\ printed = FALSE
    /\ exported = FALSE
    /\ f_vuln_score = 0
    /\ f_secrets = 0
    /\ f_malware = 0
    /\ alerts = {}
    /\ err = NoErr
    /\ exit_code = NoExit

Init ==
    /\ pc = "parse_args"
    /\ args \in ValidArgs \cup {InvalidArgs}
    /\ report = NoReport
    /\ InitCommon

\* an exception reaches the handlers of main (lines 586-594)
Fail(stage, kind, n) ==
    /\ pc' = "done"
    /\ err' = [at |-> stage, kind |-> kind, n |-> n]
    /\ exit_code' = ExitOnException(kind)

\* lines 521-536: parse_args returns the arguments
ParseArgs ==
    /\ pc = "parse_args"
    /\ args.valid
    /\ pc' = "detect_container_runtime"
    /\ trace' = Append(trace, "parse_args")
    /\ UNCHANGED <<args, report, push_attempts, push_consumed, push_rest, push_err, count, fetchlog,
                   slept, printed, exported, f_vuln_score, f_secrets, f_malware,
                   alerts, err, exit_code>>

\* line 457: parser.parse_args() rejects the command line: argparse prints
\* the usage and calls sys.exit(2); SystemExit is no Exception, so the
\* handlers of main do not catch it
ParseArgsError ==
    /\ pc = "parse_args"
    /\ ~args.valid
    /\ pc' = "done"
    /\ trace' = Append(trace, "parse_args")
    /\ err' = [at |-> "parse_args", kind |-> "SystemExit", n |-> 0]
    /\ exit_code' = ArgparseError
    /\ UNCHANGED <<args, report, push_attempts, push_consumed, push_rest, push_err, count, fetchlog,
                   slept, printed, exported, f_vuln_score, f_secrets, f_malware,
                   alerts>>

\* lines 538-541: detect_container_runtime returns a client or raises
\* RuntimeError; with --skip-push the next step is get_scanreport
DetectContainerRuntime ==
    /\ pc = "detect_container_runtime"
    /\ trace' = Append(trace, "detect_container_runtime")
    /\ \E ok \in BOOLEAN :
          IF ok
          THEN /\ pc' = IF args.skip_push THEN "get_scanreport" ELSE "container_tag"
               /\ UNCHANGED <<err, exit_code>>
          ELSE Fail("detect_container_runtime", "RuntimeError", 0)
    /\ UNCHANGED <<args, report, push_attempts, push_consumed, push_rest, push_err, count, fetchlog,
                   slept, printed, exported, f_vuln_score, f_secrets, f_malware,
                   alerts>>

\* line 546: container_tag, which raises what the runtime client raises
ContainerTag ==
    /\ pc = "container_tag"
    /\ trace' = Append(trace, "container_tag")
    /\ \E ok \in BOOLEAN :
          IF ok
          THEN pc' = "container_login" /\ UNCHANGED <<err, exit_code>>
          ELSE Fail("container_tag", "Exception", 0)
    /\ UNCHANGED <<args, report, push_attempts, push_consumed, push_rest, push_err, count, fetchlog,
                   slept, printed, exported, f_vuln_score, f_secrets, f_malware,
                   alerts>>

\* line 547: container_login logs and re-raises a failed login
ContainerLogin ==
    /\ pc = "container_login"
    /\ trace' = Append(trace, "container_login")
    /\ \E ok \in BOOLEAN :
          IF ok
          THEN pc' = "container_push" /\ UNCHANGED <<err, exit_code>>
          ELSE Fail("container_login", "Exception", 0)
    /\ UNCHANGED <<args, report, push_attempts, push_consumed, push_rest, push_err, count, fetchlog,
                   slept, printed, exported, f_vuln_score, f_secrets, f_malware,
                   alerts>>

\* line 548 and lines 123-137: an attempt of container_push begins:
\* client.images.push returns the stream of the attempt
ContainerPush ==
    /\ pc = "container_push"
    /\ trace' = IF push_attempts = 0 THEN Append(trace, "container_push") ELSE trace
    /\ push_attempts' = push_attempts + 1
    /\ \E stream \in Streams : push_rest' = stream
    /\ push_consumed' = 0
    /\ push_err' = "none"
    /\ pc' = "push_loop"
    /\ UNCHANGED <<args, report, count, fetchlog, slept, printed, exported,
                   f_vuln_score, f_secrets, f_malware, alerts, err, exit_code>>

\* lines 139-159 and the retry decorator of line 122: the next line of the
\* stream is read.  An error line raises APIError, which ends the attempt;
\* the attempt is made again unless the stop condition holds, and then the
\* decorator raises RetryError to main.  Any other line is printed or
\* logged and the loop goes on.
PushLine ==
    /\ pc = "push_loop"
    /\ push_rest # <<>>
    /\ push_rest' = Tail(push_rest)
    /\ push_consumed' = push_consumed + 1
    /\ IF LineRaises(Head(push_rest))
       THEN /\ push_err' = "APIError"
            /\ \E delay_elapsed \in BOOLEAN :
                  IF StopRetry(push_attempts, delay_elapsed)
                  THEN Fail("container_push", "RetryError", push_attempts)
                  ELSE pc' = "container_push" /\ UNCHANGED <<err, exit_code>>
       ELSE UNCHANGED <<pc, push_err, err, exit_code>>
    /\ UNCHANGED <<args, report, trace, push_attempts, count, fetchlog, slept,
                   printed, exported, f_vuln_score, f_secrets, f_malware, alerts>>

\* the stream is exhausted: container_push returns to main
PushReturn ==
    /\ pc = "push_loop"
    /\ push_rest = <<>>
    /\ pc' = "get_scanreport"
    /\ UNCHANGED <<args, report, trace, push_attempts, push_consumed, push_rest,
                   push_err, count, fetchlog, slept, printed, exported,
                   f_vuln_score, f_secrets, f_malware, alerts, err, exit_code>>

\* lines 166-174: get_scanreport is entered
GetScanreport ==
    /\ pc = "get_scanreport"
    /\ pc' = "fetch_loop"
    /\ trace' = Append(trace, "get_scanreport")
    /\ count' = 0
    /\ UNCHANGED <<args, report, push_attempts, push_consumed, push_rest, push_err, fetchlog, slept,
                   printed, exported, f_vuln_score, f_secrets, f_malware, alerts,
                   err, exit_code>>

\* lines 175-176: the loop has another iteration: time.sleep(sleep_seconds)
FetchSleep ==
    /\ pc = "fetch_loop"
    /\ RangeHas(count, args.retry_count)
    /\ pc' = "fetch_call"
    /\ fetchlog' = Append(fetchlog, [ev |-> "sleep", code |-> 0])
    /\ slept' = slept + sleep_seconds
    /\ UNCHANGED <<args, report, trace, push_attempts, push_consumed, push_rest, push_err, count,
                   printed, exported, f_vuln_score, f_secrets, f_malware, alerts,
                   err, exit_code>>

\* lines 178-185: falcon.get_assessment; a status other than 200 goes to
\* the next iteration, 200 returns ScanReport(resp["body"]) to main
FetchCall ==
    /\ pc = "fetch_call"
    /\ \E status_code \in Statuses :
          /\ fetchlog' = Append(fetchlog, [ev |-> "call", code |-> status_code])
          /\ IF NotReady(status_code)
             THEN /\ count' = count + 1
                  /\ pc' = "fetch_loop"
                  /\ UNCHANGED report
             ELSE /\ \E body \in MainReports : report' = body
                  /\ pc' = "plugin_check"
                  /\ UNCHANGED count
    /\ UNCHANGED <<args, trace, push_attempts, push_consumed, push_rest, push_err, slept, printed,
                   exported, f_vuln_score, f_secrets, f_malware, alerts, err,
                   exit_code>>

\* lines 186-188: the range is exhausted: RetryExhaustedError naming
\* retry_count
FetchExhausted ==
    /\ pc = "fetch_loop"
    /\ ~RangeHas(count, args.retry_count)
    /\ Fail("get_scanreport", "RetryExhaustedError", args.retry_count)
    /\ UNCHANGED <<args, report, trace, push_attempts, push_consumed, push_rest, push_err, count,
                   fetchlog, slept, printed, exported, f_vuln_score, f_secrets,
                   f_malware, alerts>>

\* lines 554-556: plugin mode prints the report and exits 0
PluginExit ==
    /\ pc = "plugin_check"
    /\ PluginRequested(args)
    /\ printed' = TRUE
    /\ trace' = Append(trace, "print")
    /\ exit_code' = 0
    /\ pc' = "done"
    /\ UNCHANGED <<args, report, push_attempts, push_consumed, push_rest, push_err, count, fetchlog,
                   slept, exported, f_vuln_score, f_secrets, f_malware, alerts,
                   err>>

\* lines 558-559: scan_report.export(json_report) when a path was given
Export ==
    /\ pc = "plugin_check"
    /\ ~PluginRequested(args)
    /\ IF ExportRequested(args)
       THEN exported' = TRUE /\ trace' = Append(trace, "export")
       ELSE UNCHANGED <<exported, trace>>
    /\ pc' = "get_alerts_vuln"
    /\ UNCHANGED <<args, report, push_attempts, push_consumed, push_rest, push_err, count, fetchlog,
                   slept, printed, f_vuln_score, f_secrets, f_malware, alerts,
                   err, exit_code>>

\* line 560
CallGetAlertsVuln ==
    /\ pc = "get_alerts_vuln"
    /\ trace' = Append(trace, "get_alerts_vuln")
    /\ LET r == get_alerts_vuln(report)
       IN  IF r.err = "none"
           THEN /\ f_vuln_score' = r.val
                /\ pc' = "get_alerts_secrets"
                /\ UNCHANGED <<err, exit_code>>
           ELSE /\ Fail("get_alerts_vuln", r.err, 0)
                /\ UNCHANGED f_vuln_score
    /\ UNCHANGED <<args, report, push_attempts, push_consumed, push_rest, push_err, count, fetchlog,
                   slept, printed, exported, f_secrets, f_malware, alerts>>

\* line 561
CallGetAlertsSecrets ==
    /\ pc = "get_alerts_secrets"
    /\ trace' = Append(trace, "get_alerts_secrets")
    /\ LET r == get_alerts_secrets(report)
       IN  IF r.err = "none"
           THEN /\ f_secrets' = r.val
                /\ alerts' = IF r.alert THEN alerts \cup {"secrets"} ELSE alerts
                /\ pc' = "get_alerts_malware"
                /\ UNCHANGED <<err, exit_code>>
           ELSE /\ Fail("get_alerts_secrets", r.err, 0)
                /\ UNCHANGED <<f_secrets, alerts>>
    /\ UNCHANGED <<args, report, push_attempts, push_consumed, push_rest, push_err, count, fetchlog,
                   slept, printed, exported, f_vuln_score, f_malware>>

\* line 562
CallGetAlertsMalware ==
    /\ pc = "get_alerts_malware"
    /\ trace' = Append(trace, "get_alerts_malware")
    /\ LET r == get_alerts_malware(report)
       IN  IF r.err = "none"
           THEN /\ f_malware' = r.val
                /\ alerts' = IF r.alert THEN alerts \cup {"malware"} ELSE alerts
                /\ pc' = "get_alerts_misconfig"
                /\ UNCHANGED <<err, exit_code>>
           ELSE /\ Fail("get_alerts_malware", r.err, 0)
                /\ UNCHANGED <<f_malware, alerts>>
    /\ UNCHANGED <<args, report, push_attempts, push_consumed, push_rest, push_err, count, fetchlog,
                   slept, printed, exported, f_vuln_score, f_secrets>>

\* line 563: the returned value is dropped, only the alert line remains
CallGetAlertsMisconfig ==
    /\ pc = "get_alerts_misconfig"
    /\ trace' = Append(trace, "get_alerts_misconfig")
    /\ LET r == get_alerts_misconfig(report)
       IN  IF r.err = "none"
           THEN /\ alerts' = IF r.alert THEN alerts \cup {"misconfig"} ELSE alerts
                /\ pc' = "resolve"
                /\ UNCHANGED <<err, exit_code>>
           ELSE /\ Fail("get_alerts_misconfig", r.err, 0)
                /\ UNCHANGED alerts
    /\ UNCHANGED <<args, report, push_attempts, push_consumed, push_rest, push_err, count, fetchlog,
                   slept, printed, exported, f_vuln_score, f_secrets, f_malware>>

\* lines 565-584: the exit status; int(score) may raise ValueError
Resolve ==
    /\ pc = "resolve"
    /\ trace' = Append(trace, "resolve")
    /\ LET r == ResolveStatus(f_secrets, f_malware, f_vuln_score, args.score)
       IN  IF r.err = "none"
           THEN /\ exit_code' = r.val
                /\ pc' = "done"
                /\ UNCHANGED err
           ELSE Fail("resolve", r.err, 0)
    /\ UNCHANGED <<args, report, push_attempts, push_consumed, push_rest, push_err, count, fetchlog,
                   slept, printed, exported, f_vuln_score, f_secrets, f_malware,
                   alerts>>

Next ==
    \/ ParseArgs
    \/ ParseArgsError
    \/ DetectContainerRuntime
    \/ ContainerTag
    \/ ContainerLogin
    \/ ContainerPush
    \/ PushLine
    \/ PushReturn
    \/ GetScanreport
    \/ FetchSleep
    \/ FetchCall
    \/ FetchExhausted
    \/ PluginExit
    \/ Export
    \/ CallGetAlertsVuln
    \/ CallGetAlertsSecrets
    \/ CallGetAlertsMalware
    \/ CallGetAlertsMisconfig
    \/ Resolve

Spec == Init /\ [][Next]_vars

(***************************************************************************)
(* get_alerts_vuln on its own: every vulnerabilities list of VulnReports.  *)
(***************************************************************************)
InitVuln ==
    /\ pc = "get_alerts_vuln"
    /\ args = DefaultArgs
    /\ report \in VulnReports
    /\ InitCommon

NextVuln == CallGetAlertsVuln

SpecVuln == InitVuln /\ [][NextVuln]_vars

(***************************************************************************)
(* The three detection scans on their own: every detections list of        *)
(* DetReports.                                                             *)
(***************************************************************************)
InitDet ==
    /\ pc = "get_alerts_secrets"
    /\ args = DefaultArgs
    /\ report \in DetReports
    /\ InitCommon

NextDet ==
    \/ CallGetAlertsSecrets
    \/ CallGetAlertsMalware
    \/ CallGetAlertsMisconfig

SpecDet == InitDet /\ [][NextDet]_vars

(***************************************************************************)
(* get_scanreport on its own: every retry_count up to MaxFetchRetry and    *)
(* every sequence of responses.                                            *)
(***************************************************************************)
InitFetch ==
    /\ pc = "get_scanreport"
    /\ args \in {[DefaultArgs EXCEPT !.retry_count = n] : n \in 0..MaxFetchRetry}
    /\ report = NoReport
    /\ InitCommon

NextFetch ==
    \/ GetScanreport
    \/ FetchSleep
    \/ FetchCall
    \/ FetchExhausted

SpecFetch == InitFetch /\ [][NextFetch]_vars

(***************************************************************************)
(* Vocabulary of the properties.  These definitions state what the         *)
(* specification says of a report, independently of the operators above.   *)
(***************************************************************************)
Last(seq) == seq[Len(seq)]
Entered(step) == \E i \in DOMAIN trace : trace[i] = step

\* get_scanreport has returned a report to main
Fetched ==
    /\ fetchlog # <<>>
    /\ Last(fetchlog) = [ev |-> "call", code |-> StatusOK]

SameLetter(x, y) ==
    \/ x = y
    \/ \E j \in DOMAIN UpperAlpha : {x, y} = {UpperAlpha[j], LowerAlpha[j]}

EqualsIgnoreCase(a, b) ==
    /\ Len(a) = Len(b)
    /\ \A i \in DOMAIN a : SameLetter(a[i], b[i])

\* some detection of the report has a type equal, ignoring case, to one of
\* the wanted words
HasType(rep, wanted) ==
    /\ rep.dets.k = "list"
    /\ \E i \in DOMAIN rep.dets.items :
          LET d == rep.dets.items[i]
          IN  /\ d.dkey
              /\ d.type.k = "str"
              /\ \E w \in wanted : EqualsIgnoreCase(d.type.s, w)

HasSecret(rep) == HasType(rep, {type_secret})
HasMalware(rep) == HasType(rep, {type_malware})
HasMisconfig(rep) == HasType(rep, {type_misconfig, type_cis})

ClassificationSteps ==
    {"get_alerts_vuln", "get_alerts_secrets", "get_alerts_malware", "get_alerts_misconfig"}

\* the classification of the report has completed and the status was resolved
Resolved == pc = "done" /\ trace # <<>> /\ Last(trace) = "resolve"

\* C1: when the classification of a fetched report completes, a secret
\* detection gives exit status 3 whatever else the report holds and
\* whatever the threshold, otherwise a malware detection gives 2, and only
\* otherwise the comparison of score and threshold gives 1 or 0; a run has
\* no exit status before it ends and exactly one when it has ended.
C1_StatusPriority ==
    /\ (pc # "done") = (exit_code = NoExit)
    /\ Resolved =>
          IF HasSecret(report) THEN exit_code = Secrets
          ELSE IF HasMalware(report) THEN exit_code = Malware
          ELSE args.score.ok =>
                  exit_code = (IF f_vuln_score >= args.score.val
                               THEN Vulnerability ELSE Success)

\* a report with a secret and a malware detection, under a threshold that
\* is no integer, exits 3
C1_Witness ==
    /\ Resolved
    /\ HasSecret(report)
    /\ HasMalware(report)
    /\ ~args.score.ok
    /\ exit_code = Secrets

\* C2: when the status of a report with no secret and no malware detection
\* is resolved against an integer threshold, the exit status is 1 exactly
\* when the score is at or above the threshold and 0 exactly when it is
\* below, whether or not the report has misconfiguration or cis detections.
C2_ThresholdBoundary ==
    (Resolved /\ ~HasSecret(report) /\ ~HasMalware(report) /\ args.score.ok) =>
        /\ (exit_code = Vulnerability) = (f_vuln_score >= args.score.val)
        /\ (exit_code = Success) = (f_vuln_score < args.score.val)

\* a report with a cis detection whose score equals the threshold exits 1
C2_Witness ==
    /\ Resolved
    /\ HasMisconfig(report)
    /\ "misconfig" \in alerts
    /\ f_vuln_score = low_score
    /\ args.score = [ok |-> TRUE, val |-> low_score]
    /\ exit_code = Vulnerability

\* a list that is empty, null or absent
NoFindings(l) == l.k \in {"absent", "null"} \/ l.items = <<>>

\* C3: for a fetched report whose vulnerabilities and detections are each
\* empty, null or absent, no classifier raises, the score is 0, no
\* detection is reported, and the run does not end with ScriptFailure.
C3_AbsentListsAreNoFindings ==
    (Fetched /\ ~args.plugin /\ NoFindings(report.vulns) /\ NoFindings(report.dets)) =>
        /\ err.at \notin ClassificationSteps
        /\ f_vuln_score = 0 /\ f_secrets = 0 /\ f_malware = 0 /\ alerts = {}
        /\ (pc = "done" /\ args.score.ok) => exit_code # ScriptFailure

\* the severity the specification resolves for a finding: the first
\* non-empty string of Details.severity, Details.cvss_v3_score.severity,
\* Details.cvss_v2_score.severity, and the empty string when there is none
Usable(v) == v.k = "str" /\ v.s # <<>>

SpecSeverity(f) ==
    IF f.details # "dict" THEN <<>>
    ELSE IF Usable(f.severity) THEN f.severity.s
    ELSE IF f.cvss_v3.k = "dict" /\ Usable(f.cvss_v3.severity) THEN f.cvss_v3.severity.s
    ELSE IF f.cvss_v2.k = "dict" /\ Usable(f.cvss_v2.severity) THEN f.cvss_v2.severity.s
    ELSE <<>>

SpecPoints(chars) ==
    IF EqualsIgnoreCase(chars, s_low) THEN 20
    ELSE IF EqualsIgnoreCase(chars, s_medium) THEN 100
    ELSE IF EqualsIgnoreCase(chars, s_high) THEN 500
    ELSE IF EqualsIgnoreCase(chars, s_critical) THEN 2000
    ELSE 0

RECURSIVE SpecScore(_)
SpecScore(findings) ==
    IF findings = <<>> THEN 0
    ELSE SpecPoints(SpecSeverity(Head(findings))) + SpecScore(Tail(findings))

\* get_alerts_vuln has returned to main
VulnReturned == Entered("get_alerts_vuln") /\ err.at # "get_alerts_vuln"

\* C4: the score get_alerts_vuln returns for a list of findings is the sum
\* of the points of each finding's resolved severity, the severity being
\* the first non-empty value of the chain Details.severity,
\* cvss_v3_score.severity, cvss_v2_score.severity.
C4_ScoreIsSumOfResolvedSeverities ==
    (VulnReturned /\ report.vulns.k = "list") =>
        f_vuln_score = SpecScore(report.vulns.items)

\* findings that all have the "Vulnerability" key and a usable Product, so
\* that only the severity fields are missing, null or unrecognized
SeverityOnly(findings) ==
    \A i \in DOMAIN findings : findings[i].vkey /\ findings[i].product # "null"

\* C5: severity resolution never raises: whatever severity fields of the
\* findings are missing, null or unrecognized, get_alerts_vuln completes.
C5_SeverityResolutionNeverRaises ==
    (Entered("get_alerts_vuln") /\ report.vulns.k = "list"
        /\ SeverityOnly(report.vulns.items)) =>
        err.at # "get_alerts_vuln"

Calls == {i \in DOMAIN fetchlog : fetchlog[i].ev = "call"}
Sleeps == {i \in DOMAIN fetchlog : fetchlog[i].ev = "sleep"}
AllNotReady == \A i \in Calls : fetchlog[i].code # 200

\* C7: get_scanreport makes at most retry_count get_assessment calls; each
\* call comes right after one sleep of 10 seconds and each sleep is
\* followed by a call; a response other than 200 continues the polling;
\* the first 200 response returns the report with no further sleep or call;
\* RetryExhaustedError, naming retry_count, is raised exactly when
\* retry_count calls were made and none returned 200.
C7_BoundedPolling ==
    LET N == args.retry_count
    IN  /\ Cardinality(Calls) <= N
        /\ \A i \in DOMAIN fetchlog :
              fetchlog[i].ev = (IF i % 2 = 1 THEN "sleep" ELSE "call")
        /\ pc # "fetch_call" => Cardinality(Sleeps) = Cardinality(Calls)
        /\ pc = "fetch_call" => Cardinality(Sleeps) = Cardinality(Calls) + 1
        /\ slept = 10 * Cardinality(Sleeps)
        /\ \A i \in Calls : i < Len(fetchlog) => fetchlog[i].code # 200
        /\ (Calls # {} /\ Last(fetchlog).code = 200) =>
              pc = "plugin_check" /\ err = NoErr /\ report \in MainReports
        /\ (Calls # {} /\ Last(fetchlog).ev = "call" /\ Last(fetchlog).code # 200
              /\ Cardinality(Calls) < N) => pc = "fetch_loop"
        /\ err # NoErr =>
              /\ err = [at |-> "get_scanreport", kind |-> "RetryExhaustedError", n |-> N]
              /\ Cardinality(Calls) = N
              /\ AllNotReady
              /\ report = NoReport
        /\ (Entered("get_scanreport") /\ Cardinality(Calls) = N /\ AllNotReady
              /\ pc # "fetch_call") =>
              \/ err.kind = "RetryExhaustedError"
              \/ pc = "fetch_loop" /\ ~ENABLED FetchSleep /\ ENABLED FetchExhausted

\* two calls answered 404 and then 200: the report is returned after two
\* sleeps, with a third attempt still allowed
C7_Witness ==
    /\ args.retry_count = 3
    /\ Len(fetchlog) = 4
    /\ fetchlog[2].code = 404
    /\ fetchlog[4].code = 200
    /\ slept = 20
    /\ pc = "plugin_check"

FailingSteps ==
    {"detect_container_runtime", "container_tag", "container_login",
     "container_push", "get_scanreport"} \cup ClassificationSteps

Pipeline ==
    <<"parse_args", "detect_container_runtime", "container_tag", "container_login",
      "container_push", "get_scanreport", "print", "export", "get_alerts_vuln",
      "get_alerts_secrets", "get_alerts_malware", "get_alerts_misconfig", "resolve">>

Position(step) == CHOOSE i \in DOMAIN Pipeline : Pipeline[i] = step

\* C8: a failure raised in runtime detection, tag, login, push, fetch or
\* classification ends the run with exit code 10: the failing step is the
\* last step entered, the steps run in pipeline order, and what the later
\* steps would have produced is absent.
C8_FailuresExitScriptFailure ==
    /\ \A i \in 1..(Len(trace) - 1) : Position(trace[i]) < Position(trace[i + 1])
    /\ err.at \in FailingSteps =>
          /\ pc = "done"
          /\ exit_code = ScriptFailure
          /\ Last(trace) = err.at
          /\ ~printed
          /\ Position(err.at) <= Position("get_scanreport") =>
                report = NoReport /\ ~exported /\ ~Fetched
          /\ Position(err.at) <= Position("get_alerts_vuln") => f_vuln_score = 0
          /\ Position(err.at) <= Position("get_alerts_secrets") => f_secrets = 0
          /\ Position(err.at) <= Position("get_alerts_malware") => f_malware = 0

\* runtime detection raises RuntimeError: exit code 10 and nothing else ran
C8_Witness ==
    /\ err = [at |-> "detect_container_runtime", kind |-> "RuntimeError", n |-> 0]
    /\ exit_code = ScriptFailure
    /\ trace = <<"parse_args", "detect_container_runtime">>

ScanSteps(skip_push) ==
    IF skip_push
    THEN <<"parse_args", "detect_container_runtime", "get_scanreport">>
    ELSE <<"parse_args", "detect_container_runtime", "container_tag",
           "container_login", "container_push", "get_scanreport">>

\* C9: in plugin mode a fetched report is printed and the run exits 0 at
\* once, whatever the report and the threshold: no export, no classifier
\* and no status resolution runs; in both modes the steps up to the fetch
\* are tag, login and push (unless skipped) and the polling fetch.
C9_PluginMode ==
    /\ Fetched =>
          SubSeq(trace, 1, Len(ScanSteps(args.skip_push))) = ScanSteps(args.skip_push)
    /\ printed => args.plugin /\ Fetched
    /\ (Fetched /\ args.plugin) =>
          /\ pc \in {"plugin_check", "done"}
          /\ f_vuln_score = 0 /\ f_secrets = 0 /\ f_malware = 0 /\ alerts = {}
          /\ err = NoErr
          /\ pc = "done" =>
                /\ exit_code = 0
                /\ printed
                /\ trace = Append(ScanSteps(args.skip_push), "print")

\* a plugin run after a push whose report holds a secret and a malware
\* detection exits 0
C9_Witness ==
    /\ pc = "done"
    /\ args.plugin
    /\ ~args.skip_push
    /\ HasSecret(report)
    /\ HasMalware(report)
    /\ printed
    /\ exit_code = 0

\* C10: in every run in which a JSON export path was requested and a
\* report was fetched, the report has been written to the path when the
\* process exits, whichever exit is taken.
C10_ExportBeforeExit ==
    (pc = "done" /\ args.json_report /\ Fetched) => exported

\* what holds of container_push in every state: at most 5 attempts; lines
\* are left unread only by an attempt that raised APIError; a run that
\* container_push ended has exit code 10 and fetched nothing; the fetch of
\* a run that pushes is entered only after an attempt that did not raise
PushState ==
    /\ push_attempts <= 5
    /\ push_err \in {"none", "APIError"}
    /\ pc = "push_loop" => push_err = "none"
    /\ (pc # "push_loop" /\ push_rest # <<>>) => push_err = "APIError"
    /\ (push_err = "APIError" /\ pc # "done") => pc = "container_push" /\ push_attempts < 5
    /\ err.at = "container_push" =>
          /\ pc = "done"
          /\ push_err = "APIError"
          /\ exit_code = 10
          /\ report = NoReport
          /\ fetchlog = <<>>
          /\ ~Entered("get_scanreport")
    /\ (Entered("get_scanreport") /\ Entered("container_push")) => push_err = "none"

\* what a step of container_push does with the next line of the stream: an
\* error line ends the attempt with APIError and the lines after it stay
\* unread; any other line only moves the loop on to the next line
PushStep ==
    (pc = "push_loop" /\ push_rest # <<>>) =>
        /\ push_rest' = Tail(push_rest)
        /\ push_consumed' = push_consumed + 1
        /\ push_attempts' = push_attempts
        /\ IF Head(push_rest) = "error"
           THEN /\ push_err' = "APIError"
                /\ pc' \in {"container_push", "done"}
                /\ pc' = "done" => exit_code' = 10
           ELSE /\ pc' = "push_loop"
                /\ push_err' = "none"
                /\ exit_code' = exit_code
                /\ err' = err

\* once an attempt has raised, the lines it left unread are never read:
\* they stay as they are until the next attempt gets its own stream
UnreadStaysUnread ==
    (push_err = "APIError" /\ push_err' = "APIError") => push_rest' = push_rest

\* C11: in container_push the first line of the stream that carries an
\* error ends the attempt at once with APIError, no later line of the
\* stream being read, while the other lines leave the control flow alone;
\* the push is attempted at most 5 times, and a run whose attempts all
\* failed ends with exit code 10 without fetching the scan report.
C11_PushAbortsOnErrorLine ==
    /\ PushState
    /\ [][PushStep /\ UnreadStaysUnread /\ PushState']_vars

\* the fifth attempt read a status line and then an error line: the run
\* ended with exit code 10 and no report
C11_Witness ==
    /\ push_attempts = 5
    /\ push_consumed = 2
    /\ push_err = "APIError"
    /\ err = [at |-> "container_push", kind |-> "RetryError", n |-> 5]
    /\ exit_code = 10
    /\ report = NoReport

\* C12: a run exits with code 2 only if a fetched report holds a malware
\* and no secret detection, with code 3 only if a fetched report holds a
\* secret detection, with code 1 only if the score of a fetched report is
\* at or above the threshold; every other run that ends exits 0 or 10.
C12_ExitCodesSound ==
    pc = "done" =>
        /\ exit_code \in {0, 1, 2, 3, 10}
        /\ exit_code = 2 => Fetched /\ HasMalware(report) /\ ~HasSecret(report)
        /\ exit_code = 3 => Fetched /\ HasSecret(report)
        /\ exit_code = 1 =>
              Fetched /\ args.score.ok /\ f_vuln_score >= args.score.val

====
